---- MODULE Spec2Model ----
(***************************************************************************)
(* Model of the three dashboard scripts of the repository:                 *)
(*   weather_dashboard.py       city distance and weather dashboard        *)
(*   VSOP-LIVEVIEW/streamlit_app.py   live / set-list viewer               *)
(*   app.py                     news feed dashboard                        *)
(* Each script is a straight-line run; a run is split into one action per  *)
(* point where data enters from outside (widgets, HTTP, CSV, RSS).         *)
(* SpecWeather, SpecLive and SpecNews run one script each.                 *)
(***************************************************************************)
EXTENDS Integers, Sequences, FiniteSets, TLC

VARIABLES
  w_pc,          \* position of the weather_dashboard.py run
  date_range,    \* value returned by st.sidebar.date_input
  from_coord,    \* get_coordinates(from_city)
  to_coord,      \* get_coordinates(to_city)
  distance,      \* calculate_distance(...) or None
  weather_data,  \* get_weather_data(...)
  metrics,       \* the three st.metric values, or None
  charts,        \* number of plotly charts rendered
  w_signals,     \* st.error / st.warning messages of the weather run
  fetches,       \* HTTP requests issued by the weather run, in order
  l_pc,          \* position of the streamlit_app.py run
  df_lives,      \* events table (or None)
  df_songs,      \* items table (or None)
  selected_live_display, \* st.selectbox value
  selected_live_row,     \* row of df_lives picked by .iloc[0]
  songs_to_display,      \* row labels of df_songs, in frame order
  displayed,     \* rows written by st.write, in order
  l_signals,     \* st.error / st.warning / st.info messages of the live run
  n_pc,          \* position of the app.py run
  search_query,  \* sidebar text input
  entries,       \* fetch_news(search_query)
  n_idx,         \* loop index into entries[:15]
  cards,         \* news cards rendered by st.markdown, in order
  n_signals      \* messages of the news run

w_vars == <<w_pc, date_range, from_coord, to_coord, distance, weather_data,
            metrics, charts, w_signals, fetches>>
l_vars == <<l_pc, df_lives, df_songs, selected_live_display, selected_live_row,
            songs_to_display, displayed, l_signals>>
n_vars == <<n_pc, search_query, entries, n_idx, cards, n_signals>>
vars == <<w_vars, l_vars, n_vars>>

\* Python's None and the floating-point NaN of an empty cell.  Values that
\* may be of several Python types are records tagged with their kind.
None == [kind |-> "None"]
NaN == [kind |-> "nan"]

(***************************************************************************)
(* Generic helpers                                                         *)
(***************************************************************************)
SeqsUpTo(S, n) == UNION {[1..k -> S] : k \in 0..n}

Range(s) == {s[i] : i \in 1..Len(s)}

SetMax(S) == CHOOSE x \in S : \A y \in S : y <= x

SetMin(S) == CHOOSE x \in S : \A y \in S : x <= y

(***************************************************************************)
(* weather_dashboard.py                                                    *)
(***************************************************************************)
\* Days are integers relative to today = 0.
PickerBack == 9          \* explored part of the picker's past (program: 365)
PickerMaxAhead == 16     \* max_value = today + 16 days
MaxWindowDays == 14      \* (end_date - start_date).days > 14
PastDays == 7            \* past_days=7 in the forecast URL
MaxSeriesLen == 3        \* explored length of the daily series

PickerDays == (0 - PickerBack)..PickerMaxAhead

\* st.sidebar.date_input in range mode: an empty tuple, one date, or an
\* ordered pair of dates within [min_value, max_value].
DateInputs ==
  {<<>>} \cup {<<d>> : d \in PickerDays}
         \cup {r \in PickerDays \X PickerDays : r[1] <= r[2]}

\* get_coordinates: a dict {name, lat, lon, country} or None.
Locations ==
  { [kind |-> "dict", name |-> "Tokyo", lat |-> 35, lon |-> 139, country |-> "JP"],
    [kind |-> "dict", name |-> "Osaka", lat |-> 34, lon |-> 135, country |-> "JP"] }

GeoResults == Locations \cup {None}

\* One row of weather_data["daily"].
Readings ==
  { [temperature_2m_max |-> 20, temperature_2m_min |-> 10, windspeed_10m_max |-> 5],
    [temperature_2m_max |-> 30, temperature_2m_min |-> 5, windspeed_10m_max |-> 9] }

\* The daily block: row i is the reading of day (i - 1 - PastDays).
DailySeries == SeqsUpTo(Readings, MaxSeriesLen)

DayOf(i) == i - 1 - PastDays

EmptyJson == [kind |-> "dict"]

\* get_weather_data: response.json() or None; an empty JSON object is falsy.
WeatherResults ==
  {None, EmptyJson} \cup {[kind |-> "dict", daily |-> d] : d \in DailySeries}

\* Truthiness that takes every value but None for true.
Truthy_NotNone(v) == v.kind = "dict"

\* Python truthiness of a dict-or-None value.
Truthy(v) == v.kind = "dict" /\ DOMAIN v # {"kind"}

\* geopy's geodesic(...).kilometers, kept as the term of the call.
calculate_distance(lat1, lon1, lat2, lon2) ==
  [kind |-> "geodesic_km", p1 |-> <<lat1, lon1>>, p2 |-> <<lat2, lon2>>]

ColMax(df, col) ==
  IF Len(df) = 0 THEN NaN ELSE SetMax({df[i][col] : i \in 1..Len(df)})

ColMin(df, col) ==
  IF Len(df) = 0 THEN NaN ELSE SetMin({df[i][col] : i \in 1..Len(df)})

\* Lines 216-220: the summary is taken over the whole daily frame.
Summary(df_daily) ==
  [max_t |-> ColMax(df_daily, "temperature_2m_max"),
   min_t |-> ColMin(df_daily, "temperature_2m_min"),
   max_w |-> ColMax(df_daily, "windspeed_10m_max")]

WInit ==
  /\ w_pc = "input"
  /\ date_range = None
  /\ from_coord = None
  /\ to_coord = None
  /\ distance = None
  /\ weather_data = None
  /\ metrics = None
  /\ charts = 0
  /\ w_signals = <<>>
  /\ fetches = <<"ipapi">>

\* Lines 157-172: date_input and its validation.
Validate ==
  /\ w_pc = "input"
  /\ \E r \in DateInputs :
       /\ date_range' = r
       /\ IF Len(r) = 2
            THEN IF r[2] - r[1] > MaxWindowDays
                   THEN /\ w_signals' = Append(w_signals, "error:over14days")
                        /\ w_pc' = "stopped"
                   ELSE /\ w_signals' = w_signals
                        /\ w_pc' = "geocode"
            ELSE /\ w_signals' = Append(w_signals, "warning:pickdates")
                 /\ w_pc' = "stopped"
  /\ UNCHANGED <<from_coord, to_coord, distance, weather_data, metrics, charts, fetches>>
  /\ UNCHANGED <<l_vars, n_vars>>

\* Lines 179-188: both geocoding calls, the not-found guard, the distance.
Geocode ==
  /\ w_pc = "geocode"
  /\ \E f \in GeoResults, t \in GeoResults :
       /\ from_coord' = f
       /\ to_coord' = t
       /\ fetches' = fetches \o <<"geocode", "geocode">>
       /\ IF ~Truthy(f) \/ ~Truthy(t)
            THEN /\ w_signals' = Append(w_signals, "error:citynotfound")
                 /\ w_pc' = "stopped"
                 /\ distance' = distance
            ELSE /\ w_signals' = w_signals
                 /\ distance' = calculate_distance(f.lat, f.lon, t.lat, t.lon)
                 /\ w_pc' = "weather"
  /\ UNCHANGED <<date_range, weather_data, metrics, charts>>
  /\ UNCHANGED <<l_vars, n_vars>>

\* Lines 191-194: the weather fetch and its guard.
FetchWeather ==
  /\ w_pc = "weather"
  /\ \E w \in WeatherResults :
       /\ weather_data' = w
       /\ fetches' = Append(fetches, "forecast")
       /\ IF ~Truthy(w)
            THEN /\ w_signals' = Append(w_signals, "error:weatherfailed")
                 /\ w_pc' = "stopped"
            ELSE /\ w_signals' = w_signals
                 /\ w_pc' = "render"
  /\ UNCHANGED <<date_range, from_coord, to_coord, distance, metrics, charts>>
  /\ UNCHANGED <<l_vars, n_vars>>

\* Lines 199-265: header, metrics and the two charts.
Render ==
  /\ w_pc = "render"
  /\ metrics' = Summary(weather_data.daily)
  /\ charts' = 2
  /\ w_pc' = "done"
  /\ UNCHANGED <<date_range, from_coord, to_coord, distance, weather_data, w_signals, fetches>>
  /\ UNCHANGED <<l_vars, n_vars>>

WNext == Validate \/ Geocode \/ FetchWeather \/ Render

(***************************************************************************)
(* VSOP-LIVEVIEW/streamlit_app.py                                          *)
(* Column names: date = 日付, live_name = ライブ名, live_id = ライブID,    *)
(* video_link = 動画リンク, song_order = 曲順, song_name = 楽曲名,         *)
(* vocal = ボーカル.  Text is a sequence of characters; a cell is a record *)
(* tagged int, str or nan.                                                 *)
(***************************************************************************)
MaxEvents == 2           \* explored number of rows of the events sheet
MaxSongs == 3            \* explored number of rows of the songs sheet

IntCell(n) == [kind |-> "int", val |-> n]

StrCell(s) == [kind |-> "str", val |-> s]

LivesColumns == {"date", "live_name", "live_id", "video_link"}

SongsColumns == {"live_id", "song_order", "song_name", "vocal", "STARTTIME"}

\* Header rows the sheets are explored with.
LivesHeaders ==
  { LivesColumns, LivesColumns \ {"date"}, LivesColumns \ {"live_id"},
    LivesColumns \ {"video_link"}, LivesColumns \ {"live_name", "live_id"} }

SongsHeaders ==
  { SongsColumns, SongsColumns \ {"live_id"}, SongsColumns \ {"song_order"},
    SongsColumns \ {"song_name"}, SongsColumns \ {"vocal", "STARTTIME"},
    SongsColumns \ {"live_id", "song_name"} }

\* Rows the sheets are explored with.  A cell of a column that the header
\* row lacks is never read.
EventRows ==
  { [date |-> <<"d">>, live_name |-> <<"n">>, live_id |-> IntCell(1),
     video_link |-> StrCell(<<"u", "?", "v">>)],
    [date |-> <<"d">>, live_name |-> <<"n">>, live_id |-> IntCell(2),
     video_link |-> StrCell(<<"u">>)],
    [date |-> <<"e">>, live_name |-> <<"n">>, live_id |-> NaN,
     video_link |-> NaN] }

SongRows ==
  { [live_id |-> IntCell(1), song_order |-> IntCell(2), song_name |-> <<"A">>,
     vocal |-> <<"x">>, STARTTIME |-> IntCell(90)],
    [live_id |-> IntCell(1), song_order |-> IntCell(1), song_name |-> <<"B">>,
     vocal |-> <<"y">>, STARTTIME |-> NaN],
    [live_id |-> IntCell(1), song_order |-> IntCell(1), song_name |-> <<"C">>,
     vocal |-> <<"x">>, STARTTIME |-> StrCell(<<"1", ":", "3">>)],
    [live_id |-> IntCell(1), song_order |-> NaN, song_name |-> <<"D">>,
     vocal |-> <<"y">>, STARTTIME |-> IntCell(0)],
    [live_id |-> IntCell(2), song_order |-> IntCell(1), song_name |-> <<"E">>,
     vocal |-> <<"x">>, STARTTIME |-> StrCell(<<"1", "2">>)],
    [live_id |-> NaN, song_order |-> IntCell(1), song_name |-> <<"F">>,
     vocal |-> <<"y">>, STARTTIME |-> IntCell(7)] }

DataFrame(cols, rows) == [kind |-> "df", columns |-> cols, rows |-> rows]

LivesFrames ==
  {DataFrame(c, r) : c \in LivesHeaders, r \in SeqsUpTo(EventRows, MaxEvents)}

SongsFrames ==
  {DataFrame(c, r) : c \in SongsHeaders, r \in SeqsUpTo(SongRows, MaxSongs)}

\* pd.notna
notna(c) == c.kind # "nan"

\* The elementwise == of pandas: NaN equals nothing, not even NaN.
CellEq(a, b) == notna(a) /\ notna(b) /\ a.kind = b.kind /\ a.val = b.val

Digits == <<"0", "1", "2", "3", "4", "5", "6", "7", "8", "9">>

DigitVal(c) == CHOOSE d \in 0..9 : Digits[d + 1] = c

RECURSIVE NatToStr(_)
NatToStr(n) ==
  IF n < 10 THEN <<Digits[n + 1]>>
  ELSE NatToStr(n \div 10) \o <<Digits[(n % 10) + 1]>>

\* f"{seconds}" for an int.
IntToStr(n) == IF n < 0 THEN <<"-">> \o NatToStr(0 - n) ELSE NatToStr(n)

RECURSIVE DigitsToNat(_)
DigitsToNat(s) ==
  IF s = <<>> THEN 0
  ELSE DigitsToNat(SubSeq(s, 1, Len(s) - 1)) * 10 + DigitVal(s[Len(s)])

\* int(starttime): the value, or ValueError for text that is not a number.
PyInt(c) ==
  IF c.kind = "int" THEN [ok |-> TRUE, val |-> c.val]
  ELSE LET signed == c.val # <<>> /\ c.val[1] \in {"-", "+"}
           body == IF signed THEN Tail(c.val) ELSE c.val
       IN IF body # <<>> /\ \A i \in 1..Len(body) : body[i] \in Range(Digits)
            THEN [ok |-> TRUE,
                  val |-> IF signed /\ c.val[1] = "-"
                            THEN 0 - DigitsToNat(body) ELSE DigitsToNat(body)]
            ELSE [ok |-> FALSE]

\* A link that always joins with "?".
youtube_link_AlwaysQuestion(video_link_base, starttime) ==
  IF notna(video_link_base) /\ notna(starttime)
    THEN LET seconds == PyInt(starttime)
         IN IF seconds.ok
              THEN video_link_base.val \o <<"?", "t", "=">> \o IntToStr(seconds.val)
              ELSE video_link_base.val
    ELSE <<>>

\* Lines 110-118: the deep link of one song.
youtube_link(video_link_base, starttime) ==
  IF notna(video_link_base) /\ notna(starttime)
    THEN LET seconds == PyInt(starttime)
             connector == IF "?" \in Range(video_link_base.val) THEN <<"&">> ELSE <<"?">>
         IN IF seconds.ok
              THEN video_link_base.val \o connector \o <<"t", "=">> \o IntToStr(seconds.val)
              ELSE video_link_base.val
    ELSE <<>>

\* Line 62: str(date) + " " + str(live_name)
display_name(row) == row.date \o <<" ">> \o row.live_name

\* A filter that keeps every row.
FilterByLiveId_All(df, id) == [i \in 1..Len(df.rows) |-> i]

\* Line 77: labels of the rows of df whose live_id equals the given id.
FilterByLiveId(df, id) ==
  SelectSeq([i \in 1..Len(df.rows) |-> i],
            LAMBDA i : CellEq(df.rows[i].live_id, id))

\* Line 92: DataFrame.sort_values(by) with the default kind='quicksort':
\* rows with a value come first in ascending order, rows that tie in an
\* order the algorithm does not fix; rows with NaN follow in frame order.
sort_values(df, labels, by) ==
  LET hasval == SelectSeq(labels, LAMBDA i : notna(df.rows[i][by]))
      nans == SelectSeq(labels, LAMBDA i : ~notna(df.rows[i][by]))
      n == Len(hasval)
  IN { q \o nans : q \in
         { p \in [1..n -> Range(hasval)] :
             /\ \A i, j \in 1..n : i # j => p[i] # p[j]
             /\ \A i \in 1..n : \A j \in (i + 1)..n :
                  df.rows[p[i]][by].val <= df.rows[p[j]][by].val } }

\* A guard that is satisfied when either table carries the key.
HasJoinKey_Either(lives, songs) ==
  "live_id" \in lives.columns \/ "live_id" \in songs.columns

\* Line 75
HasJoinKey(lives, songs) ==
  "live_id" \in lives.columns /\ "live_id" \in songs.columns

required_cols == <<"song_name", "vocal", "STARTTIME">>

\* A check that looks at the first required column only.
missing_cols_FirstOnly(columns) ==
  SelectSeq(<<"song_name">>, LAMBDA c : c \notin columns)

\* Line 101
missing_cols(columns) == SelectSeq(required_cols, LAMBDA c : c \notin columns)

Signal(k) == [kind |-> k]

LInit ==
  /\ l_pc = "load"
  /\ df_lives = None
  /\ df_songs = None
  /\ selected_live_display = None
  /\ selected_live_row = None
  /\ songs_to_display = <<>>
  /\ displayed = <<>>
  /\ l_signals = <<>>

\* Lines 24-50 and 126: load_data fails.
LoadFails ==
  /\ l_pc = "load"
  /\ l_signals' = <<Signal("error:load"), Signal("info:secrets")>>
  /\ l_pc' = "done"
  /\ UNCHANGED <<df_lives, df_songs, selected_live_display, selected_live_row,
                 songs_to_display, displayed>>
  /\ UNCHANGED <<w_vars, n_vars>>

\* Lines 24-60 and 69-71: load_data succeeds; the sidebar's column check.
Load ==
  /\ l_pc = "load"
  /\ \E lives \in LivesFrames, songs \in SongsFrames :
       /\ df_lives' = lives
       /\ df_songs' = songs
       /\ IF "date" \in lives.columns /\ "live_name" \in lives.columns
            THEN /\ l_pc' = "select"
                 /\ l_signals' = l_signals
            ELSE /\ l_pc' = "stopped"
                 /\ l_signals' = Append(l_signals, Signal("error:nodatecolumn"))
  /\ UNCHANGED <<selected_live_display, selected_live_row, songs_to_display, displayed>>
  /\ UNCHANGED <<w_vars, n_vars>>

\* Lines 62-68: the select box and the lookup of the selected row.
SelectLive ==
  /\ l_pc = "select"
  /\ LET live_list == [i \in 1..Len(df_lives.rows) |-> display_name(df_lives.rows[i])]
     IN IF live_list = <<>>
          THEN \* selectbox returns None; .iloc[0] raises IndexError
               /\ selected_live_display' = None
               /\ selected_live_row' = selected_live_row
               /\ l_signals' = Append(l_signals, Signal("exception:IndexError"))
               /\ l_pc' = "crashed"
          ELSE \E k \in 1..Len(live_list) :
                 /\ selected_live_display' = StrCell(live_list[k])
                 /\ selected_live_row' =
                      df_lives.rows[CHOOSE i \in 1..Len(live_list) :
                                      /\ live_list[i] = live_list[k]
                                      /\ \A j \in 1..(i - 1) : live_list[j] # live_list[k]]
                 /\ l_signals' = l_signals
                 /\ l_pc' = "join"
  /\ UNCHANGED <<df_lives, df_songs, songs_to_display, displayed>>
  /\ UNCHANGED <<w_vars, n_vars>>

\* Lines 75-103 and 123-124: join, sort and the required-column check.
Join ==
  /\ l_pc = "join"
  /\ IF HasJoinKey(df_lives, df_songs)
       THEN LET filtered == FilterByLiveId(df_songs, selected_live_row.live_id)
                sorted == "song_order" \in df_songs.columns
                missing == missing_cols(df_songs.columns)
            IN /\ \E s \in (IF sorted THEN sort_values(df_songs, filtered, "song_order")
                                      ELSE {filtered}) :
                    songs_to_display' = s
               /\ l_signals' =
                    l_signals
                    \o (IF sorted THEN <<>> ELSE <<Signal("warning:noorder")>>)
                    \o (IF missing = <<>> THEN <<>>
                        ELSE <<[kind |-> "error:missingcols", cols |-> missing]>>)
               /\ l_pc' = IF missing = <<>> /\ filtered # <<>> THEN "loop" ELSE "done"
       ELSE /\ l_signals' = Append(l_signals, Signal("warning:nojoinkey"))
            /\ l_pc' = "stopped"
            /\ songs_to_display' = songs_to_display
  /\ UNCHANGED <<df_lives, df_songs, selected_live_display, selected_live_row, displayed>>
  /\ UNCHANGED <<w_vars, n_vars>>

\* Line 97
video_link_base ==
  IF "video_link" \in df_lives.columns THEN selected_live_row.video_link
  ELSE StrCell(<<>>)

\* Lines 104-122: one iteration of the display loop.
DisplaySong ==
  /\ l_pc = "loop"
  /\ LET k == Len(displayed) + 1
         song == df_songs.rows[songs_to_display[k]]
     IN /\ displayed' = Append(displayed,
                          [row |-> songs_to_display[k],
                           song_name |-> song.song_name,
                           vocal |-> song.vocal,
                           youtube_link |-> youtube_link(video_link_base, song.STARTTIME)])
        /\ l_pc' = IF k = Len(songs_to_display) THEN "done" ELSE "loop"
  /\ UNCHANGED <<df_lives, df_songs, selected_live_display, selected_live_row,
                 songs_to_display, l_signals>>
  /\ UNCHANGED <<w_vars, n_vars>>

LNext == LoadFails \/ Load \/ SelectLive \/ Join \/ DisplaySong

(***************************************************************************)
(* app.py                                                                  *)
(* A published string is kept as the fields strptime splits it into; text  *)
(* of any other shape is a str cell.                                       *)
(***************************************************************************)
MaxEntries == 16         \* explored number of entries of a feed
FeedLimit == 15          \* entries[:15]

Weekdays == {"Mon", "Tue", "Wed", "Thu", "Fri", "Sat", "Sun"}

Months == <<"Jan", "Feb", "Mar", "Apr", "May", "Jun",
            "Jul", "Aug", "Sep", "Oct", "Nov", "Dec">>

MonthNum(name) == CHOOSE m \in 1..12 : Months[m] = name

IsLeap(y) == (y % 4 = 0 /\ y % 100 # 0) \/ y % 400 = 0

DaysIn(m, y) ==
  IF m = 2 THEN (IF IsLeap(y) THEN 29 ELSE 28)
  ELSE IF m \in {4, 6, 9, 11} THEN 30 ELSE 31

\* "Sun, 01 Nov 2026 07:46:00 GMT"
Rfc822(wd, d, mon, y, H, M, S, tz) ==
  [kind |-> "rfc822", wd |-> wd, d |-> d, mon |-> mon, y |-> y,
   H |-> H, M |-> M, S |-> S, tz |-> tz]

GoodDate == Rfc822("Sun", 1, "Nov", 2026, 7, 46, 0, "GMT")

\* Published values other than GoodDate that a feed is explored with:
\* a numeric zone, a day the month lacks, an ISO timestamp, and no
\* published field at all.
Missing == [kind |-> "missing"]

IrregularDates ==
  { Rfc822("Sun", 1, "Nov", 2026, 7, 46, 0, "+0000"),
    Rfc822("Tue", 30, "Feb", 2027, 23, 5, 9, "GMT"),
    StrCell(<<"2", "0", "2", "6", "-", "1", "1", "-", "0", "1">>),
    Missing }

\* datetime.strptime(s, '%a, %d %b %Y %H:%M:%S %Z'): the datetime, or
\* ValueError.
strptime(s) ==
  IF /\ s.kind = "rfc822"
     /\ s.wd \in Weekdays
     /\ s.mon \in Range(Months)
     /\ s.y \in 1..9999
     /\ s.d \in 1..DaysIn(MonthNum(s.mon), s.y)
     /\ s.H \in 0..23 /\ s.M \in 0..59 /\ s.S \in 0..59
     /\ s.tz \in {"GMT", "UTC"}
    THEN [ok |-> TRUE, year |-> s.y, month |-> MonthNum(s.mon), day |-> s.d,
          hour |-> s.H, minute |-> s.M]
    ELSE [ok |-> FALSE]

Pad(n, w) ==
  LET t == NatToStr(n)
  IN [i \in 1..(w - Len(t)) |-> "0"] \o t

\* dt.strftime('%Y年%m月%d日 %H:%M')
strftime(dt) ==
  StrCell(Pad(dt.year, 4) \o <<"nen">> \o Pad(dt.month, 2) \o <<"gatsu">>
          \o Pad(dt.day, 2) \o <<"nichi", " ">> \o Pad(dt.hour, 2) \o <<":">>
          \o Pad(dt.minute, 2))

\* Feeds: every entry carries GoodDate except at up to two positions.
Feeds ==
  UNION { { [i \in 1..n |-> [title |-> i,
                             published |-> IF i = a THEN pa
                                           ELSE IF i = b THEN pb ELSE GoodDate]] :
              a \in 0..n, b \in 0..n, pa \in IrregularDates, pb \in IrregularDates }
          : n \in 0..MaxEntries }

Queries == {"", "Artificial Intelligence"}

NInit ==
  /\ n_pc = "query"
  /\ search_query = ""
  /\ entries = <<>>
  /\ n_idx = 0
  /\ cards = <<>>
  /\ n_signals = <<>>

\* Lines 97, 111-116 and 140-141: the query and fetch_news.
Search ==
  /\ n_pc = "query"
  /\ \E q \in Queries, feed \in Feeds :
       /\ search_query' = q
       /\ IF q = ""
            THEN /\ entries' = entries
                 /\ n_signals' = Append(n_signals, "info:enterquery")
                 /\ n_pc' = "done"
                 /\ n_idx' = n_idx
            ELSE /\ entries' = feed
                 /\ IF feed = <<>>
                      THEN /\ n_signals' = Append(n_signals, "warning:nonews")
                           /\ n_pc' = "done"
                           /\ n_idx' = n_idx
                      ELSE /\ n_signals' = n_signals
                           /\ n_pc' = "loop"
                           /\ n_idx' = 1
  /\ cards' = cards
  /\ UNCHANGED <<w_vars, l_vars>>

\* Lines 125-129: the displayed date of one entry, or the exception that
\* leaves the loop.  entry.published of an entry without the field raises
\* AttributeError, in the try block and again in the except block.
formatted_date(entry) ==
  IF entry.published.kind = "missing" THEN [raised |-> TRUE]
  ELSE LET dt == strptime(entry.published)
       IN [raised |-> FALSE,
           val |-> IF dt.ok THEN strftime(dt) ELSE entry.published]

\* Lines 123-139: one iteration of the card loop.
RenderEntry ==
  /\ n_pc = "loop"
  /\ LET entry == entries[n_idx]
         fd == formatted_date(entry)
         last == IF Len(entries) < FeedLimit THEN Len(entries) ELSE FeedLimit
     IN IF fd.raised
          THEN /\ n_signals' = Append(n_signals, "exception:AttributeError")
               /\ n_pc' = "crashed"
               /\ UNCHANGED <<cards, n_idx>>
          ELSE /\ cards' = Append(cards, [title |-> entry.title, date |-> fd.val])
               /\ n_signals' = n_signals
               /\ IF n_idx = last
                    THEN n_pc' = "done" /\ n_idx' = n_idx
                    ELSE n_pc' = "loop" /\ n_idx' = n_idx + 1
  /\ UNCHANGED <<search_query, entries>>
  /\ UNCHANGED <<w_vars, l_vars>>

NNext == Search \/ RenderEntry

Init == WInit /\ LInit /\ NInit

SpecWeather == Init /\ [][WNext]_vars

SpecLive == Init /\ [][LNext]_vars

SpecNews == Init /\ [][NNext]_vars

(***************************************************************************)
(* Properties of weather_dashboard.py (checked under SpecWeather)          *)
(***************************************************************************)
\* Labels of the daily rows whose day lies in [start_date, end_date].
InWindow ==
  {i \in 1..Len(weather_data.daily) :
     date_range[1] <= DayOf(i) /\ DayOf(i) <= date_range[2]}

WindowCol(col) == {weather_data.daily[i][col] : i \in InWindow}

\* C1: when some daily entry lies in the selected window, the displayed
\* max temperature, min temperature and max wind speed are the max / min /
\* max over exactly the entries inside the window.
C1_SummaryOverWindow ==
  (w_pc = "done" /\ InWindow # {}) =>
    /\ metrics.max_t = SetMax(WindowCol("temperature_2m_max"))
    /\ metrics.min_t = SetMin(WindowCol("temperature_2m_min"))
    /\ metrics.max_w = SetMax(WindowCol("windspeed_10m_max"))

\* The run got past the validation of lines 165-172.
PastValidation == w_pc \in {"geocode", "weather", "render", "done"} \/ Len(fetches) > 1

\* C7: every run that proceeds past input validation has an inclusive
\* window [start_date, end_date] of at most 14 calendar days.
C7_WindowAtMost14Days ==
  PastValidation => (date_range[2] - date_range[1]) + 1 <= 14

Geocoded == "geocode" \in Range(fetches)

WeatherFetched == "forecast" \in Range(fetches)

\* C10: distance, weather fetch and rendering happen only with both cities
\* resolved; a not-found city halts the run with an error before any
\* distance or weather fetch; an empty weather fetch halts the run before
\* any summary or chart.
C10_ResolvedBeforeUse ==
  /\ (distance # None \/ WeatherFetched \/ metrics # None \/ charts > 0)
       => (from_coord \in Locations /\ to_coord \in Locations)
  /\ (Geocoded /\ (from_coord \notin Locations \/ to_coord \notin Locations))
       => /\ w_pc = "stopped"
          /\ w_signals = <<"error:citynotfound">>
          /\ distance = None
          /\ ~WeatherFetched
  /\ (WeatherFetched /\ weather_data \in {None, EmptyJson})
       => /\ w_pc = "stopped"
          /\ w_signals = <<"error:weatherfailed">>
          /\ metrics = None
          /\ charts = 0

\* C10 witness: both cities resolved, the distance computed, and the weather
\* fetch returned nothing.
C10_Witness ==
  /\ WeatherFetched
  /\ weather_data \in {None, EmptyJson}
  /\ distance # None
  /\ w_pc = "stopped"

(***************************************************************************)
(* Properties of VSOP-LIVEVIEW/streamlit_app.py (checked under SpecLive)   *)
(***************************************************************************)
Loaded == df_lives.kind = "df" /\ df_songs.kind = "df"

Halted == l_pc \in {"done", "stopped", "crashed"}

KeyInBoth == "live_id" \in df_lives.columns /\ "live_id" \in df_songs.columns

AbsentRequired == {"song_name", "vocal", "STARTTIME"} \ df_songs.columns

\* Labels of the songs whose key is present and equals the selected key.
SongsOfSelected ==
  {i \in 1..Len(df_songs.rows) :
     /\ df_songs.rows[i].live_id.kind = "int"
     /\ selected_live_row.live_id.kind = "int"
     /\ df_songs.rows[i].live_id.val = selected_live_row.live_id.val}

OrderOf(k) == df_songs.rows[displayed[k].row].song_order

\* C2: with the join key in both tables, the order column and all required
\* columns present, the displayed rows are exactly the songs whose key
\* equals the selected live's key, each once, in ascending order of the
\* order field (rows without an order value come last).
C2_ExactlySelectedAscending ==
  (Loaded /\ l_pc = "done" /\ KeyInBoth /\ "song_order" \in df_songs.columns
     /\ AbsentRequired = {}) =>
    /\ {displayed[k].row : k \in 1..Len(displayed)} = SongsOfSelected
    /\ Len(displayed) = Cardinality(SongsOfSelected)
    /\ \A k \in 1..Len(displayed) :
         /\ displayed[k].song_name = df_songs.rows[displayed[k].row].song_name
         /\ displayed[k].vocal = df_songs.rows[displayed[k].row].vocal
    /\ \A j \in 1..Len(displayed) : \A k \in (j + 1)..Len(displayed) :
         /\ OrderOf(j).kind = "nan" => OrderOf(k).kind = "nan"
         /\ (OrderOf(j).kind = "int" /\ OrderOf(k).kind = "int")
              => OrderOf(j).val <= OrderOf(k).val

\* C2 witness: a finished run that displayed two or more songs which the
\* sheet lists out of order, next to a song that is not of the selected live.
C2_Witness ==
  /\ Loaded /\ l_pc = "done" /\ KeyInBoth /\ "song_order" \in df_songs.columns
  /\ AbsentRequired = {}
  /\ Len(displayed) >= 2
  /\ \E i \in 1..Len(df_songs.rows) : i \notin SongsOfSelected
  /\ \E i, j \in SongsOfSelected :
       /\ i < j
       /\ df_songs.rows[i].song_order.kind = "int"
       /\ df_songs.rows[j].song_order.kind = "int"
       /\ df_songs.rows[i].song_order.val > df_songs.rows[j].song_order.val

\* Text of the link the claim describes for a base link and an offset.
ExpectedLink(base, s) ==
  base \o (IF \E i \in 1..Len(base) : base[i] = "?" THEN <<"&">> ELSE <<"?">>)
       \o <<"t", "=">> \o IntToStr(s)

\* C3: for every displayed song whose live has a base link and whose start
\* time is an integer s, the link is the unaltered base link followed by
\* "&t=s" when the base link contains "?" and by "?t=s" when it does not.
C3_DeepLink ==
  /\ ExpectedLink(<<"u", "?", "v">>, 90) = <<"u", "?", "v", "&", "t", "=", "9", "0">>
  /\ ExpectedLink(<<"u">>, 0) = <<"u", "?", "t", "=", "0">>
  /\ \A k \in 1..Len(displayed) :
       LET start == df_songs.rows[displayed[k].row].STARTTIME
           base == selected_live_row.video_link
       IN ("video_link" \in df_lives.columns /\ base.kind = "str" /\ start.kind = "int")
            => /\ displayed[k].youtube_link = ExpectedLink(base.val, start.val)
               /\ SubSeq(displayed[k].youtube_link, 1, Len(base.val)) = base.val

\* C3 witness: a song starting at second 90 displayed for a live whose base
\* link contains "?".
C3_Witness ==
  \E k \in 1..Len(displayed) :
    /\ "video_link" \in df_lives.columns
    /\ selected_live_row.video_link = StrCell(<<"u", "?", "v">>)
    /\ df_songs.rows[displayed[k].row].STARTTIME = IntCell(90)
    /\ displayed[k].youtube_link = <<"u", "?", "v", "&", "t", "=", "9", "0">>

\* C4 as stated: if the join key column is absent from either table, the
\* run signals the missing-join-key condition and halts with no song row
\* displayed.
C4_MissingKeySignalled ==
  (Loaded /\ Halted /\ ~KeyInBoth) =>
    /\ l_pc = "stopped"
    /\ Signal("warning:nojoinkey") \in Range(l_signals)
    /\ displayed = <<>>

\* C4 amended: if the join key column is absent from either table, no song
\* row is ever displayed and no join of any kind is made; the run halts,
\* with the missing-join-key warning whenever it reached the join step, and
\* otherwise at an earlier step (missing date/name column, or no live row to
\* select).
C4_MissingKeyHalts ==
  (Loaded /\ ~KeyInBoth) =>
    /\ displayed = <<>>
    /\ songs_to_display = <<>>
    /\ l_pc \in {"select", "join", "stopped", "crashed"}
    /\ (Halted /\ selected_live_row # None)
         => (l_pc = "stopped" /\ l_signals = <<Signal("warning:nojoinkey")>>)
    /\ (Halted /\ selected_live_row = None)
         => \/ /\ l_signals = <<Signal("error:nodatecolumn")>>
               /\ {"date", "live_name"} \ df_lives.columns # {}
            \/ /\ l_signals = <<Signal("exception:IndexError")>>
               /\ df_lives.rows = <<>>

\* C4 witness: a live was selected, the songs sheet has rows but no key
\* column, and the run stopped with the warning.
C4_Witness ==
  /\ Loaded
  /\ "live_id" \in df_lives.columns /\ "live_id" \notin df_songs.columns
  /\ df_songs.rows # <<>>
  /\ selected_live_row # None
  /\ l_pc = "stopped"
  /\ l_signals = <<Signal("warning:nojoinkey")>>

\* C6: two displayed songs with equal order values appear in the relative
\* order in which the songs sheet lists them.
C6_StableTies ==
  (Loaded /\ l_pc = "done") =>
    \A j \in 1..Len(displayed) : \A k \in (j + 1)..Len(displayed) :
      (OrderOf(j).kind = "int" /\ OrderOf(k).kind = "int"
         /\ OrderOf(j).val = OrderOf(k).val)
        => displayed[j].row < displayed[k].row

\* C8 as stated: if a required display column is absent, the run signals the
\* missing-required-column error naming the absent columns and displays no
\* song row.
C8_MissingColumnsSignalled ==
  (Loaded /\ Halted /\ AbsentRequired # {}) =>
    /\ \E i \in 1..Len(l_signals) :
         /\ l_signals[i].kind = "error:missingcols"
         /\ Range(l_signals[i].cols) = AbsentRequired
    /\ displayed = <<>>

\* C8 amended: if a required display column is absent, no song row is ever
\* displayed, complete or partial; a run that reaches the required-column
\* check ends with the error naming exactly the absent columns, and a run
\* that does not has halted at an earlier guard.
C8_MissingColumnsNoRows ==
  (Loaded /\ AbsentRequired # {}) =>
    /\ displayed = <<>>
    /\ l_pc # "loop"
    /\ l_pc = "done"
         => /\ KeyInBoth
            /\ l_signals # <<>>
            /\ l_signals[Len(l_signals)].kind = "error:missingcols"
            /\ Range(l_signals[Len(l_signals)].cols) = AbsentRequired
            /\ Len(l_signals[Len(l_signals)].cols) = Cardinality(AbsentRequired)
    /\ l_pc \in {"stopped", "crashed"}
         => /\ \A i \in 1..Len(l_signals) : l_signals[i].kind # "error:missingcols"
            /\ \/ ~KeyInBoth
               \/ {"date", "live_name"} \ df_lives.columns # {}
               \/ df_lives.rows = <<>>

\* C8 witness: songs of the selected live exist, two required columns are
\* absent, and the run ended with the error.
C8_Witness ==
  /\ Loaded /\ l_pc = "done" /\ KeyInBoth
  /\ AbsentRequired = {"vocal", "STARTTIME"}
  /\ songs_to_display # <<>>
  /\ l_signals[Len(l_signals)] =
       [kind |-> "error:missingcols", cols |-> <<"vocal", "STARTTIME">>]

(***************************************************************************)
(* Properties of app.py (checked under SpecNews)                           *)
(***************************************************************************)
Shown == IF Len(entries) < 15 THEN Len(entries) ELSE 15

NewsEnded == n_pc \in {"done", "crashed"}

\* The entry has a published string that the fixed format does not parse.
Unparseable(i) ==
  /\ entries[i].published.kind # "missing"
  /\ entries[i].published # GoodDate

\* C5: an entry among the first 15 whose published string does not parse is
\* still rendered, with the raw string as its date, and the entries after
\* it are rendered too.
C5_UnparseableKeptRaw ==
  NewsEnded =>
    \A i \in 1..Shown :
      Unparseable(i) =>
        /\ Len(cards) = Shown
        /\ cards[i].title = entries[i].title
        /\ cards[i].date = entries[i].published

\* C9: an entry without a published field does not make the run raise; it
\* is rendered, and so are the remaining entries up to the limit of 15.
C9_MissingDateTolerated ==
  /\ n_pc # "crashed"
  /\ (n_pc = "done" /\ search_query # "") =>
       /\ Len(cards) = Shown
       /\ \A i \in 1..Shown : cards[i].title = entries[i].title

====
